---- MODULE Spec2Model ----
(***************************************************************************)
(* Model of scripts/waste_classifier.py: one run of main(), from the      *)
(* command line to the line printed on standard output.                    *)
(*                                                                         *)
(* Python lists are modelled as 1-based sequences, so Python index k is    *)
(* index k+1 here.  Model scores are fixed-point numbers in halves: the    *)
(* integer 2 stands for 1.0, 1 for 0.5, 3 for 1.5 and -1 for -0.5.         *)
(* Scores range over finite numbers only; NaN is not modelled.             *)
(***************************************************************************)
EXTENDS Integers, Sequences, FiniteSets, TLC

VARIABLES argv, fs, pc, stdout, model, loads, predicts, img_array,
          predictions, exc, result, uncaught

vars == <<argv, fs, pc, stdout, model, loads, predicts, img_array,
          predictions, exc, result, uncaught>>

\* ------------------------------------------------------------------ bounds

\* Largest number of command-line arguments after the script name.
MaxArgs == 3

\* Largest width of the score vector the model returns.
MaxWidth == 6

\* ------------------------------------------------------- program constants

CATEGORIES == <<"Paper", "Glass", "Metal", "Plastic", "Trash">>

UsageText == "Usage: python waste_classifier.py <model_path> <image_path>"

\* ---------------------------------------------------------- the environment

Script == "waste_classifier.py"

\* Paths that may appear on the command line.
Paths == {"model.h5", "img.jpg"}

\* sys.argv: the script name followed by 0..MaxArgs arguments.
ArgVectors ==
    UNION {{<<Script>> \o a : a \in [1..n -> Paths]} : n \in 0..MaxArgs}

\* Scores the model may put in its output vector (in halves, see above).
ScoreVals == {-1, 1, 2}

\* predictions[0]: the score vector of the single image of the batch.
ScoreVectors == UNION {[1..n -> ScoreVals] : n \in 0..MaxWidth}

\* Messages of the exceptions the libraries may raise.
LoadErrors == {"Unable to open file (file signature not found)"}
PreprocessErrors == {"cannot identify image file"}
PredictErrors == {"Input 0 of layer is incompatible with the layer"}

None == "None"
NoResult == [none |-> TRUE]

\* ------------------------------------------------------------ pure helpers

\* len(sys.argv) != 3, negated.
ArgCountOk_AtLeast(av) == Len(av) >= 3
ArgCountOk(av) == Len(av) = 3

model_path(av) == av[2]
image_path(av) == av[3]

\* os.path.exists(model_path)
ModelExists_Always(av, files) == TRUE
ModelExists(av, files) == model_path(av) \in files

\* os.path.exists(image_path)
ImageExists_Always(av, files) == TRUE
ImageExists(av, files) == image_path(av) \in files

\* {"success": False, "error": f"Model not found: {model_path}"}
ModelNotFound_NoPath(p) == [success |-> FALSE, error |-> "Model not found: "]
ModelNotFound(p) == [success |-> FALSE, error |-> "Model not found: " \o p]

\* {"success": False, "error": f"Image not found: {image_path}"}
ImageNotFound_NoPath(p) == [success |-> FALSE, error |-> "Image not found: "]
ImageNotFound(p) == [success |-> FALSE, error |-> "Image not found: " \o p]

\* print(json.dumps(d)): one line of standard output holding a JSON object.
JsonLine(d) == [kind |-> "json", value |-> d]

\* print(text): one line of standard output holding plain text.
TextLine(t) == [kind |-> "text", value |-> t]

\* float(score): widening a float32 to a Python float keeps its value.
PyFloat_Clamped(x) == IF x < 0 THEN 0 ELSE IF x > 2 THEN 2 ELSE x
PyFloat(x) == x

\* np.argmax: a left-to-right scan that keeps the first largest element.
RECURSIVE ScanMax(_, _, _)
ScanMax(s, i, best) ==
    IF i > Len(s) THEN best
    ELSE ScanMax(s, i + 1, IF s[i] > s[best] THEN i ELSE best)

RECURSIVE ScanMaxLast(_, _, _)
ScanMaxLast(s, i, best) ==
    IF i > Len(s) THEN best
    ELSE ScanMaxLast(s, i + 1, IF s[i] >= s[best] THEN i ELSE best)

RECURSIVE ScanMin(_, _, _)
ScanMin(s, i, best) ==
    IF i > Len(s) THEN best
    ELSE ScanMin(s, i + 1, IF s[i] < s[best] THEN i ELSE best)

ArgMax_Last(s) == ScanMaxLast(s, 2, 1)
ArgMax_Min(s) == ScanMin(s, 2, 1)
ArgMax(s) == ScanMax(s, 2, 1)

\* The loop building all_predictions, one entry per score, in order.
AllPredictions_DropLast(p) ==
    [i \in 1..(Len(p) - 1) |->
        [category |-> CATEGORIES[i], confidence |-> PyFloat(p[i])]]
AllPredictions(p) ==
    [i \in 1..Len(p) |->
        [category |-> CATEGORIES[i], confidence |-> PyFloat(p[i])]]

\* The result record of a successful classification.
SuccessResult(p) ==
    [success |-> TRUE,
     category |-> CATEGORIES[ArgMax(p)],
     confidence |-> PyFloat(p[ArgMax(p)]),
     all_predictions |-> AllPredictions(p)]

\* The exception, if any, that the statements of the try block raise on the
\* score vector p; None when they all succeed.
BuildError(p) ==
    IF Len(p) = 0 THEN "attempt to get argmax of an empty sequence"
    ELSE IF ArgMax(p) > Len(CATEGORIES) THEN "list index out of range"
    ELSE IF Len(p) > Len(CATEGORIES) THEN "list index out of range"
    ELSE None

\* The record the except clause builds from the exception's message.
FailureResult(msg) == [success |-> FALSE, error |-> msg]

\* -------------------------------------------------------------------- Init

Init ==
    /\ argv \in ArgVectors
    /\ fs \in SUBSET Paths
    /\ pc = "args"
    /\ stdout = <<>>
    /\ model = None
    /\ loads = 0
    /\ predicts = 0
    /\ img_array = None
    /\ predictions = <<>>
    /\ exc = None
    /\ result = NoResult
    /\ uncaught = None

\* ----------------------------------------------------------------- actions

\* main: the argument-count check.
CheckArgs ==
    /\ pc = "args"
    /\ IF ArgCountOk(argv)
       THEN /\ pc' = "check_model"
            /\ UNCHANGED stdout
       ELSE /\ stdout' = Append(stdout, TextLine(UsageText))
            /\ pc' = "done"
    /\ UNCHANGED <<argv, fs, model, loads, predicts, img_array, predictions,
                   exc, result, uncaught>>

\* main: the model-file check.
CheckModel ==
    /\ pc = "check_model"
    /\ IF ModelExists(argv, fs)
       THEN /\ pc' = "check_image"
            /\ UNCHANGED stdout
       ELSE /\ stdout' = Append(stdout, JsonLine(ModelNotFound(model_path(argv))))
            /\ pc' = "done"
    /\ UNCHANGED <<argv, fs, model, loads, predicts, img_array, predictions,
                   exc, result, uncaught>>

\* main: the image-file check.
CheckImage ==
    /\ pc = "check_image"
    /\ IF ImageExists(argv, fs)
       THEN /\ pc' = "load"
            /\ UNCHANGED stdout
       ELSE /\ stdout' = Append(stdout, JsonLine(ImageNotFound(image_path(argv))))
            /\ pc' = "done"
    /\ UNCHANGED <<argv, fs, model, loads, predicts, img_array, predictions,
                   exc, result, uncaught>>

\* WasteClassifier(model_path): load_model returns the model.
LoadModelOk ==
    /\ pc = "load"
    /\ loads' = loads + 1
    /\ model' = "loaded"
    /\ pc' = "preprocess"
    /\ UNCHANGED <<argv, fs, stdout, predicts, img_array, predictions, exc,
                   result, uncaught>>

\* WasteClassifier(model_path): load_model raises; nothing in main catches
\* it, so the run ends with a traceback on standard error.
LoadModelRaises ==
    /\ pc = "load"
    /\ loads' = loads + 1
    /\ \E msg \in LoadErrors : uncaught' = msg
    /\ pc' = "crashed"
    /\ UNCHANGED <<argv, fs, stdout, model, predicts, img_array, predictions,
                   exc, result>>

\* classify: preprocess_image returns the normalised array.
PreprocessOk ==
    /\ pc = "preprocess"
    /\ img_array' = "array"
    /\ pc' = "predict"
    /\ UNCHANGED <<argv, fs, stdout, model, loads, predicts, predictions, exc,
                   result, uncaught>>

\* classify: preprocess_image raises inside the try block.
PreprocessRaises ==
    /\ pc = "preprocess"
    /\ \E msg \in PreprocessErrors : exc' = msg
    /\ pc' = "except"
    /\ UNCHANGED <<argv, fs, stdout, model, loads, predicts, img_array,
                   predictions, result, uncaught>>

\* classify: model.predict returns a batch of one score vector.
PredictOk ==
    /\ pc = "predict"
    /\ predicts' = predicts + 1
    /\ \E p \in ScoreVectors : predictions' = p
    /\ pc' = "build"
    /\ UNCHANGED <<argv, fs, stdout, model, loads, img_array, exc, result,
                   uncaught>>

\* classify: model.predict raises inside the try block.
PredictRaises ==
    /\ pc = "predict"
    /\ predicts' = predicts + 1
    /\ \E msg \in PredictErrors : exc' = msg
    /\ pc' = "except"
    /\ UNCHANGED <<argv, fs, stdout, model, loads, img_array, predictions,
                   result, uncaught>>

\* classify: the top prediction, the list of all predictions, the result.
BuildResult ==
    /\ pc = "build"
    /\ IF BuildError(predictions) = None
       THEN /\ result' = SuccessResult(predictions)
            /\ pc' = "print"
            /\ UNCHANGED exc
       ELSE /\ exc' = BuildError(predictions)
            /\ pc' = "except"
            /\ UNCHANGED result
    /\ UNCHANGED <<argv, fs, stdout, model, loads, predicts, img_array,
                   predictions, uncaught>>

\* classify: except Exception as e.
ExceptHandler_Reraise ==
    /\ pc = "except"
    /\ uncaught' = exc
    /\ pc' = "crashed"
    /\ UNCHANGED <<argv, fs, stdout, model, loads, predicts, img_array,
                   predictions, exc, result>>
ExceptHandler ==
    /\ pc = "except"
    /\ result' = FailureResult(exc)
    /\ pc' = "print"
    /\ UNCHANGED <<argv, fs, stdout, model, loads, predicts, img_array,
                   predictions, exc, uncaught>>

\* classify returns result; main prints it as JSON.
PrintResult ==
    /\ pc = "print"
    /\ stdout' = Append(stdout, JsonLine(result))
    /\ pc' = "done"
    /\ UNCHANGED <<argv, fs, model, loads, predicts, img_array, predictions,
                   exc, result, uncaught>>

Next ==
    \/ CheckArgs
    \/ CheckModel
    \/ CheckImage
    \/ LoadModelOk
    \/ LoadModelRaises
    \/ PreprocessOk
    \/ PreprocessRaises
    \/ PredictOk
    \/ PredictRaises
    \/ BuildResult
    \/ ExceptHandler
    \/ PrintResult

Spec == Init /\ [][Next]_vars

\* ------------------------------------------------------- claim vocabulary

Terminated == pc \in {"done", "crashed"}

TwoArgs == Len(argv) = 3

Succeeded == "success" \in DOMAIN result /\ result.success

\* The precondition checks of main, in the run's inputs.
PreconditionFailed ==
    \/ ~TwoArgs
    \/ model_path(argv) \notin fs
    \/ image_path(argv) \notin fs

ModelNotFoundLine ==
    [kind |-> "json",
     value |-> [success |-> FALSE,
                error |-> "Model not found: " \o argv[2]]]

ImageNotFoundLine ==
    [kind |-> "json",
     value |-> [success |-> FALSE,
                error |-> "Image not found: " \o argv[3]]]

InUnitInterval(x) == 0 <= x /\ x <= 2

\* ------------------------------------------------------------------ claims

\* C1: with two arguments and a missing model file, the only thing ever
\* printed is the "Model not found: <model_path>" JSON object, whether or
\* not the image file exists; the run ends having printed exactly that.
C1_ModelNotFound ==
    (TwoArgs /\ argv[2] \notin fs) =>
        /\ stdout \in {<<>>, <<ModelNotFoundLine>>}
        /\ pc # "crashed"
        /\ Terminated => stdout = <<ModelNotFoundLine>>

C1_Witness ==
    /\ TwoArgs /\ argv[2] \notin fs /\ argv[3] \in fs
    /\ pc = "done"
    /\ stdout = <<ModelNotFoundLine>>

\* C2 (as stated): with two arguments and a missing image file, the output
\* is the "Image not found: <image_path>" JSON object.
C2_Original ==
    (TwoArgs /\ argv[3] \notin fs /\ Terminated) =>
        stdout = <<ImageNotFoundLine>>

\* C2 (amended): with two arguments, an existing model file and a missing
\* image file, the output is the "Image not found: <image_path>" JSON object.
C2_ImageNotFound ==
    (TwoArgs /\ argv[2] \in fs /\ argv[3] \notin fs) =>
        /\ stdout \in {<<>>, <<ImageNotFoundLine>>}
        /\ pc # "crashed"
        /\ Terminated => stdout = <<ImageNotFoundLine>>

C2_Witness ==
    /\ TwoArgs /\ argv[2] \in fs /\ argv[3] \notin fs
    /\ pc = "done"
    /\ stdout = <<ImageNotFoundLine>>

C4_Original ==
    Succeeded => Len(result.all_predictions) = 5

\* C4 (amended): a successful result has as many entries in all_predictions
\* as the score vector has scores, a number between 1 and 5; it has 5
\* entries exactly when the model returns 5 scores.
C4_CountIsWidth ==
    Succeeded =>
        /\ Len(result.all_predictions) = Len(predictions)
        /\ Len(predictions) \in 1..Len(CATEGORIES)
        /\ Len(CATEGORIES) = 5

C4_Witness ==
    /\ Succeeded
    /\ Len(predictions) = 5
    /\ Len(result.all_predictions) = 5
    /\ pc = "done"

\* C5 (as stated): every run prints exactly one line, a JSON object with the
\* field success, carrying category, confidence and all_predictions when
\* success is true and error when it is false.
C5_Original ==
    Terminated =>
        /\ Len(stdout) = 1
        /\ stdout[1].kind = "json"
        /\ "success" \in DOMAIN stdout[1].value
        /\ stdout[1].value.success =>
               {"category", "confidence", "all_predictions"}
                   \subseteq DOMAIN stdout[1].value
        /\ ~stdout[1].value.success => "error" \in DOMAIN stdout[1].value

\* C6: an exception raised inside classify (preprocessing, prediction or
\* result construction) never leaves classify: the result is the failure
\* record holding the exception's message, and main prints that record.
C6_Caught ==
    /\ pc = "crashed" => exc = None
    /\ (exc # None /\ pc \in {"print", "done"}) =>
           result = [success |-> FALSE, error |-> exc]
    /\ (exc # None /\ Terminated) =>
           stdout = <<[kind |-> "json",
                       value |-> [success |-> FALSE, error |-> exc]]>>

\* A run in which result construction failed on a score vector wider than
\* the category list, and the failure was printed.
C6_Witness ==
    /\ pc = "done"
    /\ Len(predictions) > 5
    /\ exc = "list index out of range"
    /\ stdout = <<[kind |-> "json",
                   value |-> [success |-> FALSE, error |-> exc]]>>

\* C7 (as stated): in a successful result the top-level confidence and every
\* confidence of all_predictions lie in [0,1], for every score vector.
C7_Original ==
    Succeeded =>
        /\ InUnitInterval(result.confidence)
        /\ \A i \in 1..Len(result.all_predictions) :
               InUnitInterval(result.all_predictions[i].confidence)

\* C7 (amended): in a successful result every confidence of all_predictions
\* is the model's score at that index, unchanged, and the top-level
\* confidence is one of them; so the confidences lie in [0,1] whenever all
\* the scores the model returned do.
C7_ScoresUnchanged ==
    Succeeded =>
        LET ap == result.all_predictions IN
        /\ Len(ap) = Len(predictions)
        /\ \A i \in 1..Len(ap) : ap[i].confidence = predictions[i]
        /\ \E i \in 1..Len(ap) : result.confidence = predictions[i]
        /\ (\A i \in 1..Len(predictions) : InUnitInterval(predictions[i]))
               => /\ InUnitInterval(result.confidence)
                  /\ \A i \in 1..Len(ap) : InUnitInterval(ap[i].confidence)

\* A successful result on a score vector with a score outside [0,1].
C7_Witness ==
    /\ Succeeded
    /\ pc = "done"
    /\ \E i \in 1..Len(predictions) : ~InUnitInterval(predictions[i])
    /\ \E i \in 1..Len(predictions) : InUnitInterval(predictions[i])

\* C8: a failed precondition short-circuits (the model is never loaded and
\* no prediction is made), and every run loads the model at most once,
\* predicts at most once and prints at most one line.
C8_SingleAttempt ==
    /\ PreconditionFailed =>
           /\ loads = 0 /\ predicts = 0 /\ model = None
           /\ pc \in {"args", "check_model", "check_image", "done"}
    /\ loads <= 1
    /\ predicts <= 1
    /\ Len(stdout) <= 1

C8_Witness ==
    /\ TwoArgs /\ argv[2] \in fs /\ argv[3] \notin fs
    /\ pc = "done"
    /\ loads = 0 /\ predicts = 0
    /\ Len(stdout) = 1

\* C9: the model-file check comes first: with both files missing the error
\* printed is "Model not found", and an "Image not found" error is printed
\* only in runs where the model file exists.
C9_ModelCheckedFirst ==
    /\ (TwoArgs /\ argv[2] \notin fs /\ argv[3] \notin fs /\ Terminated) =>
           stdout = <<ModelNotFoundLine>>
    /\ \A k \in 1..Len(stdout) :
           (TwoArgs /\ stdout[k] = ImageNotFoundLine) => argv[2] \in fs

C9_Witness ==
    /\ TwoArgs /\ argv[2] \notin fs /\ argv[3] \notin fs
    /\ argv[2] # argv[3]
    /\ pc = "done"
    /\ stdout = <<ModelNotFoundLine>>

====
